---------------------------- MODULE Spec2Model ----------------------------
(***************************************************************************)
(* Screenshot store of the sewer-camera dashboard: the three save/list     *)
(* servers of the repository (server/index.js, the hardened copy of it in  *)
(* the camera-stream package, and screenshot-api/screenshots.ts) over one  *)
(* JSON file.                                                              *)
(*                                                                         *)
(* JavaScript scalars are written as their JSON literal text ("0", "\"\"") *)
(* and a missing key is a key that is not in the DOMAIN of the object.     *)
(***************************************************************************)
EXTENDS Integers, Sequences, FiniteSets, TLC

(* ------------------------------ bounds --------------------------------- *)
MaxRecords == 3      \* saves stop once the file holds this many records
MaxClock   == 1      \* Date.now() ranges over 0..MaxClock
MaxRnd     == 1      \* Math.random() suffix ranges over 1..MaxRnd
MaxRace    == 2      \* requests in flight at once in the concurrency model

\* how far around each documented threshold the status grid reaches, in
\* thousandths
GridOffset == 2

\* fetches of a screenshot table that may be awaiting their answer at once
MaxPending == 3

\* the longest list a table is given by the server
MaxShots == 3

(* --------------------------- JavaScript values -------------------------- *)
Undefined == "undefined"
EmptyStr  == "\"\""
PlainStr  == "\"plain\""
DataUrl   == "\"data:image/png;base64,iVBOR\""

Variants == {"legacy", "hardened", "api"}

\* typeof v === 'string', for a JSON literal
IsString(v) == v \in {EmptyStr, PlainStr, DataUrl}

\* v.length === 0, for a string literal
IsEmptyString(v) == v = EmptyStr

\* image.startsWith('data:image/')
StartsWithDataImage(v) == v = DataUrl

\* the value a JavaScript condition treats as true
Truthy(v) == v \notin {Undefined, "null", "0", EmptyStr, "false"}

\* const { k } = obj : the value of key k, undefined when the key is absent
Field(obj, k) == IF k \in DOMAIN obj THEN obj[k] ELSE Undefined

Keys == {"robotId", "image", "segmentData", "position"}

\* segmentData objects a client can send: {} and {SegmentID, Water, Light}
EmptySeg == << >>
FullSeg  == [SegmentID |-> "0", Water |-> "0.3", Light |-> "0.478"]
SegObjects == {EmptySeg, FullSeg}

\* position arrays a client can send: [x, y] and the malformed [x]
GoodPos == <<"0.5", "0.5">>
ShortPos == <<"0.5">>
Positions == {GoodPos, ShortPos}

FullBodies == [robotId : {"0", "1"}, image : {EmptyStr, PlainStr, DataUrl},
               segmentData : SegObjects, position : Positions]

\* every request body: any subset of the four keys may be missing
Bodies == {[k \in K |-> b[k]] : b \in FullBodies, K \in SUBSET Keys}

\* bodies that pass every server's documented contract: robotId 0 or 1, a
\* data-URL image, a segmentData with its SegmentID and a position pair
RaceBodies == [robotId : {"0", "1"}, image : {DataUrl},
               segmentData : {FullSeg}, position : {GoodPos}]

\* the bodies of the UI: a documented body, or one with keys left out
CoreBodies == {[k \in K |-> b[k]] : b \in RaceBodies, K \in SUBSET Keys}

Has(body, k) == k \in DOMAIN body

(* ------------------------------ the file -------------------------------- *)
\* screenshots.json: absent, text that is not JSON, JSON that is not an
\* array, or a JSON array of records
FileKinds == {"absent", "invalid", "nonarray", "array"}

Absent   == [kind |-> "absent",   recs |-> << >>]
Invalid  == [kind |-> "invalid",  recs |-> << >>]
NonArray == [kind |-> "nonarray", recs |-> << >>]
ArrayFile(recs) == [kind |-> "array", recs |-> recs]

\* fs.existsSync(path)
ExistsSync(f) == f.kind # "absent"

\* the records a reader of the file gets
StoredRecords(f) == IF f.kind = "array" THEN f.recs ELSE << >>

\* JSON.stringify(obj): keys whose value is undefined are dropped
ScalarKeys == {"robotId", "image", "water", "light"}
Stringify(obj) ==
  [k \in {x \in DOMAIN obj : ~(x \in ScalarKeys /\ obj[x] = Undefined)} |-> obj[k]]

\* `screenshot-${Date.now()}-${Math.random().toString(36).substr(2, 9)}`
NewId(ms, rnd) == <<ms, rnd>>
NoId == << >>


(* --------------------------- handler results ---------------------------- *)
\* what one handler call leaves behind: the response (status, id of
\* {success, id}, the array of a list response) and the file, with the
\* number of fs.writeFileSync / fs.unlinkSync calls it made
Reply(status, f, writes, id, body, isArray) ==
  [status |-> status, file |-> f, writes |-> writes, id |-> id,
   body |-> body, isArray |-> isArray]

\* JSON.parse(fs.readFileSync(path, 'utf8')) throws (ENOENT or SyntaxError)
ReadThrows(f) == f.kind \in {"absent", "invalid"}

\* a push that forgets what was read
PushOverwrite(screenshots, newScreenshot) == <<newScreenshot>>

\* screenshots.push(newScreenshot)
Push(screenshots, newScreenshot) == Append(screenshots, newScreenshot)

\* a write that stores the newest record first
WriteFileNewestFirst(screenshots) ==
  ArrayFile([i \in DOMAIN screenshots |->
               Stringify(screenshots[Len(screenshots) + 1 - i])])

\* fs.writeFileSync(path, JSON.stringify(screenshots, null, 2))
WriteFile(screenshots) ==
  ArrayFile([i \in DOMAIN screenshots |-> Stringify(screenshots[i])])

\* the record server/index.js and the hardened server build
NewScreenshot(body, ms, rnd) ==
  [id |-> NewId(ms, rnd), timestamp |-> ms, robotId |-> Field(body, "robotId"),
   image |-> Field(body, "image"), segmentData |-> body.segmentData]

\* a record with the two readings swapped
NewScreenshotApiSwapped(body, ms, rnd) ==
  [id |-> NewId(ms, rnd), timestamp |-> ms, robotId |-> Field(body, "robotId"),
   position |-> body.position,
   water |-> Field(body.segmentData, "Light"),
   light |-> Field(body.segmentData, "Water"),
   image |-> Field(body, "image")]

\* the record screenshot-api/screenshots.ts builds
NewScreenshotApi(body, ms, rnd) ==
  [id |-> NewId(ms, rnd), timestamp |-> ms, robotId |-> Field(body, "robotId"),
   position |-> body.position,
   water |-> Field(body.segmentData, "Water"),
   light |-> Field(body.segmentData, "Light"),
   image |-> Field(body, "image")]

(* --------------------- server/index.js (legacy) ------------------------- *)
\* if (!robotId || !image || !segmentData)
LegacyMissing(body) ==
  \/ ~Truthy(Field(body, "robotId"))
  \/ ~Truthy(Field(body, "image"))
  \/ ~Has(body, "segmentData")

LegacySave(f, body, ms, rnd) ==
  IF LegacyMissing(body) THEN Reply(400, f, 0, NoId, << >>, FALSE)
  ELSE IF ReadThrows(f) \/ f.kind # "array"
    THEN Reply(500, f, 0, NoId, << >>, FALSE)
  ELSE LET new == NewScreenshot(body, ms, rnd)
       IN Reply(200, WriteFile(Push(f.recs, new)), 1, new.id, << >>, FALSE)

LegacyList(f) ==
  IF ReadThrows(f) THEN Reply(500, f, 0, NoId, << >>, FALSE)
  ELSE IF f.kind = "nonarray" THEN Reply(200, f, 0, NoId, << >>, FALSE)
  ELSE Reply(200, f, 0, NoId, f.recs, TRUE)

(* ------------------- hardened server (camera-stream package) ------------ *)
\* a check that also asks for position
HardenedMissingPosition(body) ==
  \/ Field(body, "robotId") \in {Undefined, "null"}
  \/ ~Truthy(Field(body, "image"))
  \/ ~Has(body, "segmentData")
  \/ ~Has(body, "position")

\* if ((robotId === undefined || robotId === null) || !image || !segmentData)
HardenedMissing(body) ==
  \/ Field(body, "robotId") \in {Undefined, "null"}
  \/ ~Truthy(Field(body, "image"))
  \/ ~Has(body, "segmentData")

\* if (!segmentData.SegmentID && segmentData.SegmentID !== 0)
MissingSegmentID(seg) ==
  ~Truthy(Field(seg, "SegmentID")) /\ Field(seg, "SegmentID") # "0"

\* typeof image !== 'string' || image.length === 0, then the prefix test
BadImage(image) ==
  \/ ~IsString(image) \/ IsEmptyString(image)
  \/ ~StartsWithDataImage(image)

\* let screenshots = []; if (existsSync) { try { parse; if (!isArray) [] }
\* catch { [] } }
HardenedRead(f) == IF f.kind = "array" THEN f.recs ELSE << >>

HardenedSave(f, body, ms, rnd) ==
  IF HardenedMissing(body) THEN Reply(400, f, 0, NoId, << >>, FALSE)
  ELSE IF MissingSegmentID(body.segmentData)
    THEN Reply(400, f, 0, NoId, << >>, FALSE)
  ELSE IF BadImage(Field(body, "image"))
    THEN Reply(400, f, 0, NoId, << >>, FALSE)
  ELSE LET new == NewScreenshot(body, ms, rnd)
       IN Reply(200, WriteFile(Push(HardenedRead(f), new)), 1, new.id,
                << >>, FALSE)

HardenedList(f) ==
  IF ~ExistsSync(f) THEN Reply(200, f, 0, NoId, << >>, TRUE)
  ELSE IF f.kind = "invalid" THEN Reply(500, f, 0, NoId, << >>, FALSE)
  ELSE IF f.kind = "nonarray" THEN Reply(200, f, 0, NoId, << >>, TRUE)
  ELSE Reply(200, f, 0, NoId, f.recs, TRUE)

(* -------------------- screenshot-api/screenshots.ts --------------------- *)
\* an ensureScreenshotsFile() that creates nothing
EnsureNothing(f) == f

\* ensureScreenshotsFile(): the file after the call
EnsureScreenshotsFile(f) == IF ~ExistsSync(f) THEN ArrayFile(<< >>) ELSE f

\* the writes ensureScreenshotsFile() makes
EnsureWrites(f) == IF ~ExistsSync(f) THEN 1 ELSE 0

\* a check that forgets image
ApiMissingNoImage(body) ==
  \/ Field(body, "robotId") \in {Undefined, "null"}
  \/ ~Has(body, "segmentData")
  \/ ~Has(body, "position") \/ Len(body.position) # 2

\* missingFields.length > 0
ApiMissing(body) ==
  \/ Field(body, "robotId") \in {Undefined, "null"}
  \/ Field(body, "image") \in {Undefined, "null"}
  \/ ~Has(body, "segmentData")
  \/ ~Has(body, "position") \/ Len(body.position) # 2

ApiSave(f, body, ms, rnd) ==
  LET g == EnsureScreenshotsFile(f)
      w == EnsureWrites(f)
  IN IF ApiMissing(body) THEN Reply(400, g, w, NoId, << >>, FALSE)
     ELSE IF ReadThrows(g) \/ g.kind # "array"
       THEN Reply(500, g, w, NoId, << >>, FALSE)
     ELSE LET new == NewScreenshotApi(body, ms, rnd)
          IN Reply(200, WriteFile(Push(g.recs, new)), w + 1, new.id,
                   << >>, FALSE)

\* one step of screenshots.sort((a, b) => time(b) - time(a)): r goes behind
\* every record that is not older than it (the sort is stable)
RECURSIVE InsertDesc(_, _)
InsertDesc(r, s) ==
  IF s = << >> THEN <<r>>
  ELSE IF Head(s).timestamp >= r.timestamp
    THEN <<Head(s)>> \o InsertDesc(r, Tail(s))
  ELSE <<r>> \o s

RECURSIVE SortDesc(_)
SortDesc(s) ==
  IF s = << >> THEN << >>
  ELSE InsertDesc(s[Len(s)], SortDesc(SubSeq(s, 1, Len(s) - 1)))

\* a list that answers in stored order
ApiListUnsorted(f) ==
  LET g == EnsureScreenshotsFile(f)
      w == EnsureWrites(f)
  IN IF ReadThrows(g) \/ g.kind # "array"
       THEN Reply(500, g, w, NoId, << >>, FALSE)
     ELSE Reply(200, g, w, NoId, g.recs, TRUE)

\* getScreenshots: ensure the file, parse it, sort newest first, answer
ApiList(f) ==
  LET g == EnsureScreenshotsFile(f)
      w == EnsureWrites(f)
  IN IF ReadThrows(g) \/ g.kind # "array"
       THEN Reply(500, g, w, NoId, << >>, FALSE)
     ELSE Reply(200, g, w, NoId, SortDesc(g.recs), TRUE)

\* clearAllScreenshots: unlink the file when it exists
ApiClear(f) ==
  IF ExistsSync(f) THEN Reply(200, Absent, 1, NoId, << >>, FALSE)
  ELSE Reply(200, f, 0, NoId, << >>, FALSE)

(* ------------------------------ dispatch -------------------------------- *)
SaveHandler(v, f, body, ms, rnd) ==
  CASE v = "legacy"   -> LegacySave(f, body, ms, rnd)
    [] v = "hardened" -> HardenedSave(f, body, ms, rnd)
    [] v = "api"      -> ApiSave(f, body, ms, rnd)

\* a list that stores the array it answers with
ListHandlerWritingBack(v, f) ==
  LET r == CASE v = "legacy"   -> LegacyList(f)
             [] v = "hardened" -> HardenedList(f)
             [] v = "api"      -> ApiList(f)
  IN IF r.status = 200 /\ r.isArray
       THEN [r EXCEPT !.file = ArrayFile(r.body), !.writes = @ + 1]
     ELSE r

ListHandler(v, f) ==
  CASE v = "legacy"   -> LegacyList(f)
    [] v = "hardened" -> HardenedList(f)
    [] v = "api"      -> ApiList(f)

(* ------------------------------- state ---------------------------------- *)
VARIABLES
  variant,    \* which of the three servers is running
  file,       \* content of screenshots.json
  now,        \* the clock Date.now() reads
  last,       \* the most recent call: request, response and what it wrote
  inflight,   \* requests received and not yet answered, with their answers
  ui          \* state of the browser-side component under study

vars == <<variant, file, now, last, inflight, ui>>

\* no browser-side component takes part
NoUi == [view |-> "none"]

NoCall == [op |-> "none", status |-> 0, pre |-> "absent", req |-> << >>,
           id |-> NoId, body |-> << >>, isArray |-> FALSE, writes |-> 0,
           prev |-> "other"]

\* what the call before this one was, as far as the next call's result
\* depends on it: a save answered 200, a clear, or anything else
Prior(call) ==
  IF call.op = "save" /\ call.status = 200 THEN "save"
  ELSE IF call.op = "clear" /\ call.status = 200 THEN "clear"
  ELSE "other"

\* a start-up that writes the empty array whether the file exists or not
StartupFileAlways(v, f) ==
  IF v \in {"legacy", "hardened"} THEN ArrayFile(<< >>) ELSE f

\* the file a freshly started server finds: server/index.js and the hardened
\* server create it at start-up, screenshots.ts creates it at the first call
StartupFile(v, f) ==
  IF v \in {"legacy", "hardened"} /\ ~ExistsSync(f) THEN ArrayFile(<< >>) ELSE f

Init ==
  /\ variant \in Variants
  /\ file = StartupFile(variant, Absent)
  /\ now = 0
  /\ last = NoCall
  /\ inflight = << >>
  /\ ui = NoUi

(* ------------------------- one request at a time ------------------------ *)
\* POST /api/screenshots
Save ==
  \E body \in CoreBodies, rnd \in 1..MaxRnd :
    LET r == SaveHandler(variant, file, body, now, rnd)
    IN /\ Len(StoredRecords(file)) < MaxRecords
       /\ file' = r.file
       /\ last' = [op |-> "save", status |-> r.status, pre |-> file.kind,
                   req |-> body, id |-> r.id, body |-> << >>,
                   isArray |-> FALSE, writes |-> r.writes,
                   prev |-> Prior(last)]
       /\ UNCHANGED <<variant, now, inflight, ui>>

\* GET /api/screenshots
List ==
  LET r == ListHandler(variant, file)
  IN /\ file' = r.file
     /\ last' = [op |-> "list", status |-> r.status, pre |-> file.kind,
                 req |-> IF Prior(last) = "save" THEN last.req ELSE << >>,
                 id |-> IF Prior(last) = "save" THEN last.id ELSE NoId,
                 body |-> r.body,
                 isArray |-> r.isArray, writes |-> r.writes,
                 prev |-> Prior(last)]
     /\ UNCHANGED <<variant, now, inflight, ui>>

\* clearAllScreenshots(req, res), which only screenshots.ts has
Clear ==
  LET r == ApiClear(file)
  IN /\ variant = "api"
     /\ file' = r.file
     /\ last' = [op |-> "clear", status |-> r.status, pre |-> file.kind,
                 req |-> << >>, id |-> NoId, body |-> << >>,
                 isArray |-> FALSE, writes |-> r.writes,
                 prev |-> Prior(last)]
     /\ UNCHANGED <<variant, now, inflight, ui>>

\* time passes
Tick ==
  /\ now < MaxClock
  /\ now' = now + 1
  /\ UNCHANGED <<variant, file, last, inflight, ui>>

\* somebody edits screenshots.json by hand: truncated text, or a JSON value
\* that is not an array
Corrupt ==
  /\ file' \in {Invalid, NonArray}
  /\ last' = [NoCall EXCEPT !.op = "tamper"]
  /\ UNCHANGED <<variant, now, inflight, ui>>

\* somebody deletes screenshots.json while the server runs
Remove ==
  /\ ExistsSync(file)
  /\ file' = Absent
  /\ last' = [NoCall EXCEPT !.op = "tamper"]
  /\ UNCHANGED <<variant, now, inflight, ui>>

\* the Access-Control-Allow-Methods header that index.ts sends
CorsAllowMethods == {"GET", "POST", "OPTIONS"}

\* the handler that index.ts registers for a method on /api/screenshots
RouteOf(method) ==
  CASE method = "POST" -> "saveScreenshot"
    [] method = "GET" -> "getScreenshots"
    [] OTHER -> "none"

\* a client sends DELETE /api/screenshots: the request passes the CORS
\* middleware and the body parser, and reaches clearAllScreenshots only when
\* a route was registered for it; otherwise Express answers 404
HttpDelete ==
  LET routed == RouteOf("DELETE") = "clearAllScreenshots"
      r == IF routed THEN ApiClear(file)
           ELSE Reply(404, file, 0, NoId, << >>, FALSE)
  IN /\ variant = "api"
     /\ file' = r.file
     /\ last' = [op |-> "delete", status |-> r.status, pre |-> file.kind,
                 req |-> << >>, id |-> NoId, body |-> << >>,
                 isArray |-> FALSE, writes |-> r.writes,
                 prev |-> Prior(last)]
     /\ UNCHANGED <<variant, now, inflight, ui>>

Next == Save \/ List \/ Clear \/ Tick \/ Corrupt \/ Remove \/ HttpDelete

Spec == Init /\ [][Next]_vars

TypeOK ==
  /\ variant \in Variants
  /\ file.kind \in FileKinds
  /\ now \in 0..MaxClock
  /\ Len(StoredRecords(file)) <= MaxRecords
  /\ last.status \in {0, 200, 400, 404, 500}

(* ----------------------- a write that fails ----------------------------- *)
\* fs.writeFileSync(path, text) throws: either before the file was opened
\* (the file is as it was) or after it was opened for writing, which
\* truncates it, and before the whole text was written (what is left is
\* not JSON)
WriteThrows(f) == {f, Invalid}

\* the files a save can leave behind when a write of it throws: the write
\* of ensureScreenshotsFile (screenshots.ts only), or the write of the array
SaveWriteThrows(v, f) ==
  IF v = "api"
    THEN WriteThrows(EnsureScreenshotsFile(f))
           \cup (IF ExistsSync(f) THEN {} ELSE WriteThrows(f))
    ELSE WriteThrows(f)

\* a save that passes validation and reading, and whose write throws: the
\* catch block of the handler answers 500
SaveWriteFails ==
  \E body \in CoreBodies :
    /\ SaveHandler(variant, file, body, now, 1).status = 200
    /\ file' \in SaveWriteThrows(variant, file)
    /\ last' = [op |-> "save", status |-> 500, pre |-> file.kind,
                req |-> body, id |-> NoId, body |-> << >>,
                isArray |-> FALSE, writes |-> 0, prev |-> Prior(last)]
    /\ UNCHANGED <<variant, now, inflight, ui>>

NextFault == Next \/ SaveWriteFails

SpecFault == Init /\ [][NextFault]_vars

(* ------------------------- the server restarts -------------------------- *)
\* the process is stopped and started again: nothing is kept in memory
\* between requests, and the start-up code runs on the file as it is
Restart ==
  /\ file' = StartupFile(variant, file)
  /\ last' = [NoCall EXCEPT !.op = "restart", !.pre = file.kind]
  /\ UNCHANGED <<variant, now, inflight, ui>>

NextRestart == Next \/ Restart

SpecRestart == Init /\ [][NextRestart]_vars

(* ------------------- one call, any body, sampled store ------------------ *)
\* the store after one documented save on a fresh server
OneRecordFile(v) ==
  SaveHandler(v, EnsureScreenshotsFile(Absent),
              [robotId |-> "1", image |-> DataUrl, segmentData |-> FullSeg,
               position |-> GoodPos], 0, 1).file

\* stores a request can find: fresh, deleted, edited by hand, or holding a
\* record
InitCall ==
  /\ variant \in Variants
  /\ file \in {StartupFile(variant, Absent), Absent, Invalid, NonArray,
               OneRecordFile(variant)}
  /\ now = 0
  /\ last = NoCall
  /\ inflight = << >>
  /\ ui = NoUi

\* POST /api/screenshots with any body, as the first call on that store
SaveAny ==
  \E body \in Bodies, rnd \in 1..MaxRnd :
    LET r == SaveHandler(variant, file, body, now, rnd)
    IN /\ last.op = "none"
       /\ file' = r.file
       /\ last' = [op |-> "save", status |-> r.status, pre |-> file.kind,
                   req |-> body, id |-> r.id, body |-> << >>,
                   isArray |-> FALSE, writes |-> r.writes,
                   prev |-> Prior(last)]
       /\ UNCHANGED <<variant, now, inflight, ui>>

NextCall == SaveAny \/ Tick

SpecCall == InitCall /\ [][NextCall]_vars

(* ------------------------- requests in flight --------------------------- *)
\* the state a route handler waits in before the save handler runs: the
\* servers of server/index.js run it as soon as the body is parsed,
\* screenshot-api/index.ts first awaits import("./screenshots")
ReadyPc(v) == IF v = "api" THEN "imported" ELSE "arrived"

\* a client fires a POST without waiting for the earlier ones
Arrive ==
  \E body \in RaceBodies :
    /\ Len(inflight) < MaxRace
    /\ inflight' = Append(inflight, [body |-> body, pc |-> "arrived",
                                     status |-> 0, id |-> NoId,
                                     overlap |-> {}])
    /\ UNCHANGED <<variant, file, now, last, ui>>

\* server.post("/api/screenshots", async ...) up to its await
Route(i) ==
  /\ variant = "api"
  /\ inflight[i].pc = "arrived"
  /\ inflight' = [inflight EXCEPT ![i].pc = "imported"]
  /\ UNCHANGED <<variant, file, now, last, ui>>

\* the save handler, which is synchronous code from its first line to
\* res.json: no other callback runs in between
Handle(i) ==
  \E rnd \in 1..MaxRnd :
    LET r == SaveHandler(variant, file, inflight[i].body, now, rnd)
    IN /\ inflight[i].pc = ReadyPc(variant)
       /\ file' = r.file
       /\ inflight' = [inflight EXCEPT
            ![i] = [body |-> inflight[i].body, pc |-> "done",
                    status |-> r.status, id |-> r.id,
                    overlap |-> {j \in DOMAIN inflight :
                                   j # i /\ inflight[j].pc # "done"}]]
       /\ UNCHANGED <<variant, now, last, ui>>

RaceNext ==
  \/ Arrive
  \/ \E i \in DOMAIN inflight : Route(i)
  \/ \E i \in DOMAIN inflight : Handle(i)
  \/ Tick

SpecRace == Init /\ [][RaceNext]_vars

(* ------------------ utils/statusCalculator.ts (browser) ----------------- *)
\* the variables of the server, which the browser-side steps leave alone
server == <<variant, file, now, last, inflight>>

\* Water and Light are numbers of [0, 1]; the model counts them in
\* thousandths, so 800 is 0.8 and light * 255 is compared with 51 * 1000
\* calculateStatus(water, light)
calculateStatus(water, light) ==
  LET light255 == light * 255
  IN IF light255 < 51 * 1000 \/ water > 800
       THEN [status |-> "WARNING", color |-> "#ef4444", isWarning |-> TRUE]
     ELSE IF light255 < 128 * 1000
       THEN [status |-> "LOWLIGHT", color |-> "#fbbf24", isWarning |-> FALSE]
     ELSE [status |-> "OK", color |-> "#4ade80", isWarning |-> FALSE]

\* the readings tried: the ends of the range, the documented request's
\* values, and the neighbourhood of each documented threshold
Around(t) == {t + d : d \in (0 - GridOffset)..GridOffset}
WaterGrid == {0, 300, 1000} \cup Around(800)
LightGrid == {0, 478, 1000} \cup Around(200) \cup Around(500)

NoResult == [status |-> "none", color |-> "", isWarning |-> FALSE]

InitStatus ==
  /\ variant = "api" /\ file = Absent /\ now = 0
  /\ last = NoCall /\ inflight = << >>
  /\ ui \in [view : {"status"}, water : WaterGrid, light : LightGrid,
              result : {NoResult}]

\* CameraStreamModal calls calculateStatus(currentSegment.Water,
\* currentSegment.Light)
Calculate ==
  /\ ui.view = "status" /\ ui.result = NoResult
  /\ ui' = [ui EXCEPT !.result = calculateStatus(ui.water, ui.light)]
  /\ UNCHANGED server

NextStatus == Calculate

SpecStatus == InitStatus /\ [][NextStatus]_vars

(* ------------- ScreenshotTable.tsx and ScreenshotDatabase --------------- *)
\* the arrays a GET /api/screenshots answers with: the k newest first
Listings == {[i \in 1..k |-> k + 1 - i] : k \in 0..MaxShots}

\* the error state: null, or the message of a failed request
NoError == "null"
HttpError == "Failed to load screenshots: status"
NetworkError == "Error connecting to server"

Tables == {"ScreenshotTable", "ScreenshotDatabase"}

\* fetchScreenshots up to its await: setLoading(true)
fetchScreenshotsStart(u) == [u EXCEPT !.loading = TRUE]

\* fetchScreenshots, response.ok: setScreenshots(data); setError(null);
\* finally setLoading(false)
fetchScreenshotsOk(u, data) ==
  [u EXCEPT !.screenshots = data, !.error = NoError, !.loading = FALSE]

\* a failure branch that empties the table
fetchScreenshotsFailedClearing(u, msg) ==
  [u EXCEPT !.screenshots = << >>, !.error = msg, !.loading = FALSE]

\* fetchScreenshots, response not ok or a throw: setError(msg); finally
\* setLoading(false)
fetchScreenshotsFailed(u, msg) == [u EXCEPT !.error = msg, !.loading = FALSE]

\* loadScreenshots up to its await: setError(null)
loadScreenshotsStart(u) == [u EXCEPT !.error = NoError]

\* loadScreenshots, getScreenshots() returned: setScreenshots(data);
\* setLoading(false)
loadScreenshotsOk(u, data) == [u EXCEPT !.screenshots = data, !.loading = FALSE]

\* loadScreenshots, getScreenshots() threw: setError(msg); setLoading(false)
loadScreenshotsFailed(u, msg) == [u EXCEPT !.error = msg, !.loading = FALSE]

\* useState initial values of either component; lastGood and event record
\* the data of the last fetch that succeeded and the kind of the last step
InitTable ==
  /\ variant = "api" /\ file = Absent /\ now = 0
  /\ last = NoCall /\ inflight = << >>
  /\ ui \in [view : {"table"}, comp : Tables, screenshots : {<< >>},
              loading : {TRUE}, error : {NoError}, pending : {0},
              lastGood : {<< >>}, event : {"mount"}]

\* useEffect on mount, or the 2000 ms interval: a request goes out
StartFetch ==
  /\ ui.view = "table" /\ ui.pending < MaxPending
  /\ LET u == IF ui.comp = "ScreenshotTable" THEN fetchScreenshotsStart(ui)
                ELSE loadScreenshotsStart(ui)
     IN ui' = [u EXCEPT !.pending = @ + 1, !.event = "start"]
  /\ UNCHANGED server

\* a request is answered 2xx with a JSON array
FetchOk ==
  /\ ui.view = "table" /\ ui.pending > 0
  /\ \E data \in Listings :
       LET u == IF ui.comp = "ScreenshotTable" THEN fetchScreenshotsOk(ui, data)
                ELSE loadScreenshotsOk(ui, data)
       IN ui' = [u EXCEPT !.pending = @ - 1, !.lastGood = data, !.event = "ok"]
  /\ UNCHANGED server

\* a request is answered with a status that is not 2xx, or fetch (or the
\* parsing of the body) throws
FetchFails ==
  /\ ui.view = "table" /\ ui.pending > 0
  /\ \E msg \in {HttpError, NetworkError} :
       LET u == IF ui.comp = "ScreenshotTable" THEN fetchScreenshotsFailed(ui, msg)
                ELSE loadScreenshotsFailed(ui, msg)
       IN ui' = [u EXCEPT !.pending = @ - 1, !.event = "fail"]
  /\ UNCHANGED server

NextTable == StartFetch \/ FetchOk \/ FetchFails

SpecTable == InitTable /\ [][NextTable]_vars

(* ------------------------------ App.tsx --------------------------------- *)
\* the three App components: src/src/App.tsx, the App of the integration
\* guide, and the dashboard src/ui/src/App.tsx
Apps == {"TestMapApp", "GuideApp", "DashboardApp"}

\* useState<... | null>(null)
Null == "null"

\* the cameras of the buttons Camera 0, Camera 1, Camera 2
CameraIds == {"0", "1", "2"}

\* the rows of the screenshot table, by the id of their screenshot
Rows == {<<"screenshot", k>> : k \in 1..MaxShots}

\* handleRobotClick / handleCameraClick of src/src/App.tsx and of the guide
handleRobotClick(u, robotId) ==
  [u EXCEPT !.selectedCameraId = robotId, !.selectedScreenshot = Null]

\* handleScreenshotClick of src/src/App.tsx and of the guide
handleScreenshotClick(u, screenshot) ==
  [u EXCEPT !.selectedScreenshot = screenshot, !.selectedCameraId = Null]

\* handleCloseModal of src/src/App.tsx and of the guide
handleCloseModal(u) ==
  [u EXCEPT !.selectedCameraId = Null, !.selectedScreenshot = Null]

\* the dashboard: onClick={() => setSelectedCameraId(n)} and onCameraClick
dashboardCameraClick(u, segmentId) == [u EXCEPT !.selectedCameraId = segmentId]

\* the dashboard: onScreenshotClick={(screenshot) => setSelectedScreenshot(screenshot)}
dashboardScreenshotClick(u, screenshot) ==
  [u EXCEPT !.selectedScreenshot = screenshot]

\* the dashboard: onClose={() => setSelectedCameraId(null)}
dashboardCloseCamera(u) == [u EXCEPT !.selectedCameraId = Null]

\* the dashboard: onClose={() => setSelectedScreenshot(null)}
dashboardCloseScreenshot(u) == [u EXCEPT !.selectedScreenshot = Null]

\* the camera lists fetchCameraData() resolves to, by their length
CameraLists == 0..3

\* loadData of the dashboard, fetchCameraData() returned: setCameras(data);
\* setLastUpdate; setLoading(false), after the setError(null) of its start
loadDataOk(u, data) == [u EXCEPT !.cameras = data, !.error = Null, !.loading = FALSE]

\* loadData of the dashboard, fetchCameraData() threw: setError; setLoading(false)
loadDataFailed(u) ==
  [u EXCEPT !.error = "Failed to fetch camera data", !.loading = FALSE]

\* useState initial values; cameras is cameras.length
InitApp ==
  /\ variant = "api" /\ file = Absent /\ now = 0
  /\ last = NoCall /\ inflight = << >>
  /\ ui \in [view : {"app"}, app : Apps, selectedCameraId : {Null},
              selectedScreenshot : {Null}, cameras : {0}, loading : {TRUE},
              error : {Null}, event : {"mount"}]

\* the dashboard's poll of the cameras is answered
CamerasLoad ==
  /\ ui.view = "app" /\ ui.app = "DashboardApp"
  /\ \E data \in CameraLists : ui' = [loadDataOk(ui, data) EXCEPT !.event = "load"]
  /\ UNCHANGED server

\* the dashboard's poll of the cameras fails
CamerasLoadFails ==
  /\ ui.view = "app" /\ ui.app = "DashboardApp"
  /\ ui' = [loadDataFailed(ui) EXCEPT !.event = "load"]
  /\ UNCHANGED server

\* a camera is clicked on the map, or its button is pressed; the dashboard
\* shows the map once cameras.length > 0 and enables the buttons once
\* loading is false as well
CameraClick ==
  /\ ui.view = "app"
  /\ ui.app = "DashboardApp" => ui.cameras > 0
  /\ \E id \in CameraIds :
       LET u == IF ui.app = "DashboardApp" THEN dashboardCameraClick(ui, id)
                ELSE handleRobotClick(ui, id)
       IN ui' = [u EXCEPT !.event = "camera"]
  /\ UNCHANGED server

\* a row of the screenshot table is clicked, or its View button is pressed
ScreenshotClick ==
  /\ ui.view = "app"
  /\ \E row \in Rows :
       LET u == IF ui.app = "DashboardApp" THEN dashboardScreenshotClick(ui, row)
                ELSE handleScreenshotClick(ui, row)
       IN ui' = [u EXCEPT !.event = "screenshot"]
  /\ UNCHANGED server

\* the live-feed modal calls its onClose
CloseCameraModal ==
  /\ ui.view = "app" /\ ui.selectedCameraId # Null
  /\ LET u == IF ui.app = "DashboardApp" THEN dashboardCloseCamera(ui)
                ELSE handleCloseModal(ui)
     IN ui' = [u EXCEPT !.event = "close"]
  /\ UNCHANGED server

\* the screenshot-viewer modal calls its onClose
CloseScreenshotModal ==
  /\ ui.view = "app" /\ ui.selectedScreenshot # Null
  /\ LET u == IF ui.app = "DashboardApp" THEN dashboardCloseScreenshot(ui)
                ELSE handleCloseModal(ui)
     IN ui' = [u EXCEPT !.event = "close"]
  /\ UNCHANGED server

NextApp ==
  CamerasLoad \/ CamerasLoadFails \/ CameraClick \/ ScreenshotClick \/ CloseCameraModal
    \/ CloseScreenshotModal

SpecApp == InitApp /\ [][NextApp]_vars

(* ------------------- app.js (SewerCameraDashboard) ---------------------- *)
\* a camera object of the backend, and one that lacks its Status
GoodCamera(n) == [SegmentID |-> n, Status |-> "OK", Position |-> GoodPos]
CameraNoStatus == [SegmentID |-> 0, Position |-> GoodPos]

\* what JSON.parse(JSON.parse(jsonString)) can give: an array of n cameras,
\* an array with a camera that lacks Status, or a value that is no array
CameraArray(items) == [isArray |-> TRUE, items |-> items]
NotAnArray == [isArray |-> FALSE, items |-> << >>]
ParsedData ==
  {CameraArray([i \in 1..n |-> GoodCamera(i)]) : n \in CameraLists}
    \cup {CameraArray(<<CameraNoStatus>>), NotAnArray}

\* the ways a request to apiUrl ends: fetch throws, the response is not ok,
\* the text does not parse, or it parses
Responses ==
  {[kind |-> k, data |-> NotAnArray] : k \in {"network", "http", "syntax"}}
    \cup {[kind |-> "parsed", data |-> d] : d \in ParsedData}

\* updateDashboard() throws: this.cameras.length / this.cameras.forEach on a
\* value that is no array, or camera.Status.toLowerCase() without Status
UpdateDashboardThrows(cameras) ==
  \/ ~cameras.isArray
  \/ \E i \in DOMAIN cameras.items : ~Has(cameras.items[i], "Status")

\* fetchCameraData from the answer on: try { cameras = parsedData;
\* isConnected = true; updateDashboard() } catch { isConnected = false }
fetchCameraData(u, resp) ==
  IF resp.kind # "parsed" THEN [u EXCEPT !.isConnected = FALSE]
  ELSE IF UpdateDashboardThrows(resp.data)
    THEN [u EXCEPT !.cameras = resp.data, !.isConnected = FALSE]
  ELSE [u EXCEPT !.cameras = resp.data, !.isConnected = TRUE]

\* the fields the constructor sets; fetched and before record whether the
\* last completed call got its data, and the cameras it started from
InitDashboard ==
  /\ variant = "api" /\ file = Absent /\ now = 0
  /\ last = NoCall /\ inflight = << >>
  /\ ui = [view |-> "dashboard", cameras |-> CameraArray(<< >>),
           isConnected |-> FALSE, pending |-> 0, event |-> "init",
           fetched |-> FALSE, before |-> CameraArray(<< >>)]

\* startDataStream: fetchCameraData() at once and every updateInterval; the
\* call runs up to its await fetch(this.apiUrl)
DashboardFetch ==
  /\ ui.view = "dashboard" /\ ui.pending < MaxPending
  /\ ui' = [ui EXCEPT !.pending = @ + 1, !.event = "start"]
  /\ UNCHANGED server

\* the request of one call ends and the call runs to its end
DashboardFetchCompletes ==
  /\ ui.view = "dashboard" /\ ui.pending > 0
  /\ \E resp \in Responses :
       ui' = [fetchCameraData(ui, resp) EXCEPT
                !.pending = @ - 1, !.event = "done",
                !.fetched = (resp.kind = "parsed"), !.before = ui.cameras]
  /\ UNCHANGED server

NextDashboard == DashboardFetch \/ DashboardFetchCompletes

SpecDashboard == InitDashboard /\ [][NextDashboard]_vars

(* ------------------- captureService (localStorage) ---------------------- *)
\* the value of the key sewer_camera_captures: no item, text that is not
\* JSON, the JSON texts null and {}, or the JSON text of an array of records
StoredNull == [kind |-> "null", recs |-> << >>]
StoredObject == [kind |-> "object", recs |-> << >>]

\* `capture_${Date.now()}_${Math.random().toString(36).substring(2, 11)}`
CaptureIds == {NewId(ms, rnd) : ms \in 0..MaxClock, rnd \in 1..MaxRnd}

\* the record captureVisualization builds
CapturedRecord(id) == [id |-> id, timestamp |-> id[1], pngDataUrl |-> DataUrl]

\* what a call gives back: it threw or returned, and the value returned
Returned(isArray, value) == [threw |-> FALSE, isArray |-> isArray, value |-> value]
Threw == [threw |-> TRUE, isArray |-> FALSE, value |-> << >>]

\* getAllCaptures(): [] without an item or when JSON.parse throws, else
\* whatever JSON.parse gives
getAllCaptures(st) ==
  CASE st.kind \in {"absent", "invalid"} -> Returned(TRUE, << >>)
    [] st.kind = "array" -> Returned(TRUE, st.recs)
    [] OTHER -> Returned(FALSE, st.kind)

\* getCaptureCount(): getAllCaptures().length, a TypeError on null and
\* undefined on an object
getCaptureCount(st) ==
  LET records == getAllCaptures(st)
  IN IF records.isArray THEN Returned(FALSE, Len(records.value))
     ELSE IF st.kind = "null" THEN Threw
     ELSE Returned(FALSE, -1)

\* records.filter(r => r.id !== id)
RECURSIVE FilterOutId(_, _)
FilterOutId(records, id) ==
  IF records = << >> THEN << >>
  ELSE IF Head(records).id # id
    THEN <<Head(records)>> \o FilterOutId(Tail(records), id)
  ELSE FilterOutId(Tail(records), id)

\* a delete that drops the first record instead of those of the id
deleteCaptureFirst(st, id) ==
  LET records == getAllCaptures(st)
  IN IF ~records.isArray THEN [storage |-> st, threw |-> TRUE]
     ELSE [storage |-> ArrayFile(IF records.value = << >> THEN << >>
                                 ELSE Tail(records.value)),
           threw |-> FALSE]

\* deleteCapture(id): filter the records read and store them; filter is
\* not a function of null or of an object
deleteCapture(st, id) ==
  LET records == getAllCaptures(st)
  IN IF ~records.isArray THEN [storage |-> st, threw |-> TRUE]
     ELSE [storage |-> ArrayFile(FilterOutId(records.value, id)),
           threw |-> FALSE]

\* the end of captureVisualization: existingRecords.push(record) and
\* setItem; push is not a function of null or of an object
saveCapture(st, record) ==
  LET existingRecords == getAllCaptures(st)
  IN IF ~existingRecords.isArray THEN [storage |-> st, threw |-> TRUE]
     ELSE [storage |-> ArrayFile(Append(existingRecords.value, record)),
           threw |-> FALSE]

\* clearAllCaptures(): removeItem
clearAllCaptures(st) == Absent

\* a browser whose key was never set; event, arg, ret and before record the
\* last call, what it returned and the records stored when it began
InitStore ==
  /\ variant = "api" /\ file = Absent /\ now = 0
  /\ last = NoCall /\ inflight = << >>
  /\ ui = [view |-> "captures", storage |-> Absent, event |-> "open",
           arg |-> NoId, ret |-> Returned(TRUE, << >>),
           before |-> << >>]

\* captureVisualization resolves html2canvas and stores its record
StoreCapture ==
  /\ ui.view = "captures" /\ Len(StoredRecords(ui.storage)) < MaxRecords
  /\ \E id \in CaptureIds :
       LET r == saveCapture(ui.storage, CapturedRecord(id))
       IN ui' = [ui EXCEPT !.storage = r.storage, !.event = "capture",
                           !.arg = id,
                           !.before = StoredRecords(ui.storage),
                           !.ret = IF r.threw THEN Threw
                                   ELSE Returned(FALSE, id)]
  /\ UNCHANGED server

\* handleDelete, confirmed: deleteCapture(id), for an id of a row or any
\* other id
DeleteCapture ==
  /\ ui.view = "captures"
  /\ \E id \in CaptureIds :
       LET r == deleteCapture(ui.storage, id)
       IN ui' = [ui EXCEPT !.storage = r.storage, !.event = "delete",
                           !.arg = id,
                           !.before = StoredRecords(ui.storage),
                           !.ret = IF r.threw THEN Threw
                                   ELSE Returned(FALSE, id)]
  /\ UNCHANGED server

\* handleClearAll, confirmed
ClearAllCaptures ==
  /\ ui.view = "captures"
  /\ ui' = [ui EXCEPT !.storage = clearAllCaptures(ui.storage),
                      !.event = "clear", !.arg = NoId,
                      !.before = StoredRecords(ui.storage),
                      !.ret = Returned(FALSE, NoId)]
  /\ UNCHANGED server

\* loadCaptures, every second: getAllCaptures()
LoadCaptures ==
  /\ ui.view = "captures"
  /\ ui' = [ui EXCEPT !.event = "getAll", !.arg = NoId,
                      !.before = StoredRecords(ui.storage),
                      !.ret = getAllCaptures(ui.storage)]
  /\ UNCHANGED server

\* the console helper asks for getCaptureCount()
CountCaptures ==
  /\ ui.view = "captures"
  /\ ui' = [ui EXCEPT !.event = "count", !.arg = NoId,
                      !.before = StoredRecords(ui.storage),
                      !.ret = getCaptureCount(ui.storage)]
  /\ UNCHANGED server

\* another script of the page, or the user in the developer tools, sets
\* the key
SetItemElsewhere ==
  /\ ui.view = "captures"
  /\ \E st \in {Invalid, StoredNull, StoredObject} :
       ui' = [ui EXCEPT !.storage = st, !.event = "tamper", !.arg = NoId,
                        !.before = StoredRecords(ui.storage),
                        !.ret = Returned(FALSE, NoId)]
  /\ UNCHANGED server

NextStore ==
  StoreCapture \/ DeleteCapture \/ ClearAllCaptures \/ LoadCaptures
    \/ CountCaptures \/ SetItemElsewhere

SpecStore == InitStore /\ [][NextStore]_vars

(* -------------------------- capture controls ---------------------------- *)
\* the three controls with an isCapturing state: CaptureButton.tsx, the
\* CameraStreamModal of src/ui (stores in localStorage) and the
\* CameraStreamModal that posts to the screenshot server
Controls == {"CaptureButton", "CameraStreamModal", "ScreenshotModal"}

\* cameras.map(cam => ({SegmentID, Water, Light})) for one camera
Segment(id) == [SegmentID |-> id, Water |-> "0.3", Light |-> "0.478"]

\* the cameras arrays a modal is given, by their SegmentIDs in order
CameraSeqs == UNION {[1..n -> CameraIds] : n \in CameraLists}

NoSegment == << >>
NoPayload == << >>

\* currentSegments.find(s => s.SegmentID === robotId) || currentSegments[0],
\* null without cameras
currentSegment(cameras, robotId) ==
  IF cameras = << >> THEN NoSegment
  ELSE IF \E i \in DOMAIN cameras : cameras[i] = robotId
    THEN Segment(robotId)
  ELSE Segment(cameras[1])

\* a button that is never disabled
ButtonNeverDisabled(u) == FALSE

\* the disabled attribute of the button: isCapturing, and in the src/ui
\* modal also !currentCamera
ButtonDisabled(u) ==
  \/ u.isCapturing
  \/ (u.control = "CameraStreamModal" /\ u.cameras = << >>)

\* the handler up to its first await: the early returns, then
\* setIsCapturing(true); the posting modal has no isCapturing test and
\* takes robotId and currentSegment of this render into its payload
CaptureBegins(u) ==
  CASE u.control = "CaptureButton" -> ~u.isCapturing
    [] u.control = "CameraStreamModal" -> ~u.isCapturing /\ u.cameras # << >>
    [] u.control = "ScreenshotModal" ->
         currentSegment(u.cameras, u.robotId) # NoSegment

handleCapture(u) ==
  IF ~CaptureBegins(u) THEN [u EXCEPT !.event = "refused"]
  ELSE [u EXCEPT !.isCapturing = TRUE, !.running = @ + 1,
                 !.event = "started",
                 !.payload = IF u.control = "ScreenshotModal"
                               THEN [robotId |-> u.robotId, image |-> DataUrl,
                                     segmentData |->
                                       currentSegment(u.cameras, u.robotId)]
                             ELSE NoPayload]

\* a handler whose error path forgets setIsCapturing(false)
captureEndsNoFinally(u, outcome) ==
  [u EXCEPT !.isCapturing = IF outcome = "saved" THEN FALSE ELSE @,
            !.running = @ - 1,
            !.stored = IF outcome = "saved" THEN @ + 1 ELSE @,
            !.event = outcome]

\* the handler from its awaits on: the record is stored or the server
\* answers ok (saved), the server answers with an error (rejected), or
\* something throws (threw); finally setIsCapturing(false)
captureEnds(u, outcome) ==
  [u EXCEPT !.isCapturing = FALSE,
            !.running = @ - 1,
            !.stored = IF outcome = "saved" THEN @ + 1 ELSE @,
            !.event = outcome]

\* the ways an attempt of a control can end
Outcomes(control) ==
  IF control = "ScreenshotModal" THEN {"saved", "rejected", "threw"}
  ELSE {"saved", "threw"}

\* useState(false) of a control that was given a robotId and some cameras
InitCapture ==
  /\ variant = "api" /\ file = Absent /\ now = 0
  /\ last = NoCall /\ inflight = << >>
  /\ ui \in [view : {"capture"}, control : Controls, robotId : CameraIds,
              cameras : CameraSeqs, isCapturing : {FALSE}, running : {0},
              stored : {0}, payload : {NoPayload}, event : {"mount"}]

\* the button is clicked; React commits the state set in the handler
\* before the next event is dispatched, and a disabled button dispatches
\* no click
CaptureClick ==
  /\ ui.view = "capture" /\ ~ButtonDisabled(ui)
  /\ ui.stored + ui.running < MaxRecords
  /\ ui' = handleCapture(ui)
  /\ UNCHANGED server

\* the awaited promises of an attempt settle
CaptureSettles ==
  /\ ui.view = "capture" /\ ui.running > 0
  /\ \E outcome \in Outcomes(ui.control) : ui' = captureEnds(ui, outcome)
  /\ UNCHANGED server

NextCapture == CaptureClick \/ CaptureSettles

SpecCapture == InitCapture /\ [][NextCapture]_vars

\* the awaited promises settle
SpecCaptureLive == SpecCapture /\ WF_vars(CaptureSettles)

(* ------------------------------ properties ------------------------------ *)
\* a record of the list r that answers the save of body under id
Answers(rec, id, body) ==
  /\ rec.id = id
  /\ Field(rec, "robotId") = Field(body, "robotId")
  /\ Field(rec, "image") = Field(body, "image")

\* key k of the record holds what the request sent under k
Carries(rec, body, k) == k \in DOMAIN rec /\ rec[k] = body[k]

SavedValid == last.op = "save" /\ last.req \in RaceBodies

\* C1: a save with robotId 0 and otherwise valid fields, against a readable
\* store, is answered 200 with an id and its record is stored with robotId 0.
C1_RobotIdZeroAccepted ==
  (SavedValid /\ last.pre = "array" /\ last.req.robotId = "0")
    => /\ last.status = 200
       /\ last.id # NoId
       /\ \E k \in DOMAIN StoredRecords(file) :
            /\ StoredRecords(file)[k].id = last.id
            /\ Field(StoredRecords(file)[k], "robotId") = "0"

LacksImageOrSegmentData(body) == ~Has(body, "image") \/ ~Has(body, "segmentData")

\* C2: a save whose body lacks image or segmentData, whatever else it
\* holds and whatever the store holds, is answered 400 and the list of
\* stored records is the same before and after the call.
C2_InvalidSaveKeepsCollection ==
  [][(last'.op = "save" /\ LacksImageOrSegmentData(last'.req))
       => /\ last'.status = 400
          /\ StoredRecords(file') = StoredRecords(file)]_vars

C2_Witness ==
  /\ last.op = "save"
  /\ ~Has(last.req, "image")
  /\ Has(last.req, "robotId") /\ Has(last.req, "segmentData")
  /\ last.status = 400
  /\ Len(StoredRecords(file)) >= 1

\* C3: a save that ends in a validation failure has written nothing to the
\* backing storage during the call.
C3_ValidationBeforeWrite ==
  (last.op = "save" /\ last.status = 400) => last.writes = 0

KeepsOfRequest(v, rec, body) ==
  IF v = "api"
    THEN /\ Carries(rec, body, "position")
         /\ Field(rec, "water") = Field(body.segmentData, "Water")
         /\ Field(rec, "light") = Field(body.segmentData, "Light")
         /\ ~Has(rec, "segmentData")
    ELSE /\ Carries(rec, body, "segmentData")
         /\ ~Has(rec, "position")

Raced(i, j) ==
  /\ inflight[i].pc = "done" /\ inflight[j].pc = "done"
  /\ inflight[i].status = 200 /\ inflight[j].status = 200
  /\ (j \in inflight[i].overlap \/ i \in inflight[j].overlap)

\* the file holds a record for the save i and another one for the save j
BothStored(i, j) ==
  \E p, q \in DOMAIN StoredRecords(file) :
    /\ p # q
    /\ Answers(StoredRecords(file)[p], inflight[i].id, inflight[i].body)
    /\ Answers(StoredRecords(file)[q], inflight[j].id, inflight[j].body)

C6_ConcurrentBatchKeepsOne ==
  (/\ Len(inflight) >= 2
   /\ \A i \in DOMAIN inflight : inflight[i].pc = "done"
   /\ \E i \in DOMAIN inflight : inflight[i].overlap # {})
    => /\ file.kind = "array"
       /\ \E i \in DOMAIN inflight, k \in DOMAIN StoredRecords(file) :
            /\ inflight[i].status = 200
            /\ Answers(StoredRecords(file)[k], inflight[i].id, inflight[i].body)

RepliedEmptyArray == last.status = 200 /\ last.isArray /\ last.body = << >>

\* C7: list on a file that is not JSON, or is JSON but not an array, is
\* answered 200 with an empty array.
C7_CorruptListEmpty ==
  (last.op = "list" /\ last.pre \in {"invalid", "nonarray"}) => RepliedEmptyArray

\* C8: a valid save on a file that is not JSON, or not an array, is answered
\* 200 with the new id and leaves exactly the new record in the store
\* (stated for robotId 1, a value no server's validation rejects).
C8_CorruptSaveResets ==
  (SavedValid /\ last.req.robotId = "1" /\ last.pre \in {"invalid", "nonarray"})
    => /\ last.status = 200
       /\ last.id # NoId
       /\ file.kind = "array"
       /\ Len(file.recs) = 1
       /\ Answers(file.recs[1], last.id, last.req)

\* C9: list on a file that does not exist is answered 200 with an empty
\* array.
C9_AbsentListEmpty ==
  (last.op = "list" /\ last.pre = "absent") => RepliedEmptyArray

\* C10: a list right after a clear is answered 200 with an empty array, and
\* a valid save right after a clear is answered 200 and leaves exactly the
\* new record in the store.
C10_ClearThenListOrSave ==
  /\ (last.op = "list" /\ last.prev = "clear") => RepliedEmptyArray
  /\ (SavedValid /\ last.prev = "clear")
       => /\ last.status = 200
          /\ file.kind = "array"
          /\ Len(file.recs) = 1
          /\ Answers(file.recs[1], last.id, last.req)

C10_Witness ==
  /\ SavedValid /\ last.prev = "clear"
  /\ last.status = 200
  /\ last.writes = 2

\* C11: on the screenshot API server a DELETE /api/screenshots is permitted by
\* the CORS header, reaches the clear handler, answers 200 and leaves no
\* stored record
C11_DeleteServed ==
  (variant = "api" /\ last.op = "delete") =>
    /\ "DELETE" \in CorsAllowMethods
    /\ last.status = 200
    /\ StoredRecords(file) = << >>

IsPrefix(s, t) ==
  /\ Len(s) <= Len(t)
  /\ \A i \in DOMAIN s : t[i] = s[i]

C13_UniqueIds ==
  \A i, j \in DOMAIN StoredRecords(file) :
    i # j => StoredRecords(file)[i].id # StoredRecords(file)[j].id

CountIn(s, r) == Cardinality({i \in DOMAIN s : s[i] = r})

IsPermutation(s, t) ==
  /\ Len(s) = Len(t)
  /\ \A i \in DOMAIN t : CountIn(s, t[i]) = CountIn(t, t[i])

\* C14: a list answered by screenshots.ts holds each stored record as many
\* times as the store does and nothing else, newest timestamp first
C14_ListSortedPermutation ==
  (variant = "api" /\ last.op = "list" /\ last.status = 200) =>
    /\ last.isArray
    /\ IsPermutation(last.body, StoredRecords(file))
    /\ \A i, j \in DOMAIN last.body :
         i < j => last.body[i].timestamp >= last.body[j].timestamp
    /\ \A i \in DOMAIN StoredRecords(file) :
         \E j \in DOMAIN last.body : last.body[j].id = StoredRecords(file)[i].id

\* three records were listed in an order that is not the stored one
C14_Witness ==
  /\ variant = "api" /\ last.op = "list" /\ last.status = 200
  /\ Len(last.body) = 3
  /\ last.body # StoredRecords(file)

\* a body the save contract calls invalid: robotId absent, image absent,
\* empty, not a string or not a data URL, segmentData absent or without its
\* SegmentID
InvalidByContract(body) ==
  \/ ~Has(body, "robotId")
  \/ ~Has(body, "image")
  \/ BadImage(Field(body, "image"))
  \/ ~Has(body, "segmentData")
  \/ (Has(body, "segmentData") /\ ~Has(body.segmentData, "SegmentID"))

\* C15: on a store that holds an array, every save handler answers 400 to a
\* body the contract calls invalid and stores nothing of it
C15_InvalidRejected ==
  [][(last'.op = "save" /\ last.op = "none" /\ file.kind = "array"
        /\ InvalidByContract(last'.req)) =>
       /\ last'.status = 400
       /\ StoredRecords(file') = StoredRecords(file)]_vars

\* C16: a save answered 500 leaves the stored records as they were, and a
\* file that held an array still holds one
C16_FailedSaveKeepsState ==
  [][(last'.op = "save" /\ last'.status = 500) =>
       /\ StoredRecords(file') = StoredRecords(file)
       /\ (file.kind = "array" => file'.kind = "array")]_vars

\* the body without its position key
WithoutPosition(body) == [k \in DOMAIN body \ {"position"} |-> body[k]]

\* a body every handler's contract accepts but for position, with robotId 1
ValidButPosition(body) ==
  /\ Field(body, "robotId") = "1"
  /\ Field(body, "image") = DataUrl
  /\ Has(body, "segmentData") /\ body.segmentData = FullSeg
  /\ ~Has(body, "position")

\* C17 as stated (for robotId 1, which every handler takes as present): on a
\* store that holds an array, a save of a valid body without position is
\* answered 200 with an id and stored, whichever the handler
C17_PositionOptional ==
  (last.op = "save" /\ last.pre = "array" /\ ValidButPosition(last.req)) =>
    /\ last.status = 200
    /\ \E i \in DOMAIN StoredRecords(file) : StoredRecords(file)[i].id = last.id

\* C17 amended: server/index.js and the hardened server answer a save as they
\* answer the same body without position, and store no position; screenshots.ts
\* answers 400 unless position is an array of two, and given one it accepts
\* the otherwise valid body
C17_PositionPerHandler ==
  [][(last'.op = "save" /\ last.op = "none") =>
       /\ variant \in {"legacy", "hardened"} =>
            /\ last'.status =
                 SaveHandler(variant, file, WithoutPosition(last'.req), now, 1).status
            /\ \A i \in DOMAIN StoredRecords(file') :
                 ~Has(StoredRecords(file')[i], "position")
       /\ (variant = "api" /\ ~Has(last'.req, "position")) => last'.status = 400
       /\ (variant = "api" /\ Has(last'.req, "position")
             /\ ValidButPosition(WithoutPosition(last'.req))
             /\ file.kind = "array") =>
            last'.status = (IF Len(last'.req.position) = 2 THEN 200 ELSE 400)]_vars

\* the hardened server has stored a valid body that had no position
C17_Witness ==
  /\ variant = "hardened" /\ last.op = "save" /\ last.status = 200
  /\ ValidButPosition(last.req)
  /\ \E i \in DOMAIN StoredRecords(file) : StoredRecords(file)[i].id = last.id

\* C18: calculateStatus answers OK exactly when light >= 0.5 and water <= 0.8,
\* LOWLIGHT exactly when 0.2 <= light < 0.5 and water <= 0.8, WARNING exactly
\* when light < 0.2 or water > 0.8, and isWarning exactly with WARNING
C18_StatusRules ==
  (ui.view = "status" /\ ui.result # NoResult) =>
    /\ ui.result.status \in {"OK", "LOWLIGHT", "WARNING"}
    /\ ui.result.status = "OK" <=> (ui.light >= 500 /\ ui.water <= 800)
    /\ ui.result.status = "LOWLIGHT" <=>
         (ui.light >= 200 /\ ui.light < 500 /\ ui.water <= 800)
    /\ ui.result.status = "WARNING" <=> (ui.light < 200 \/ ui.water > 800)
    /\ ui.result.isWarning <=> ui.result.status = "WARNING"

\* C19: a failed list request leaves the screenshots of the table as they
\* were and sets the error; the table always holds the data of the last
\* fetch that succeeded, or nothing when none has
C19_FailedFetchKeepsTable ==
  [][/\ ui'.event = "fail" =>
          (ui'.screenshots = ui.screenshots /\ ui'.error # NoError)
     /\ ui'.screenshots = ui'.lastGood]_vars

\* a request failed while the table showed the rows of an earlier fetch
C19_Witness ==
  /\ ui.view = "table" /\ ui.event = "fail"
  /\ ui.screenshots # << >> /\ ui.error # NoError

\* C20: the selected camera id and the selected screenshot are never both
\* set, so the two modals are never open together
C20_OneModalAtATime ==
  ui.view = "app" =>
    (ui.selectedCameraId = Null \/ ui.selectedScreenshot = Null)

\* C21: when a fetchCameraData call has completed, isConnected tells whether
\* its fetch got the cameras, and a call that ends offline has left the
\* cameras it started from
C21_ConnectionReflectsFetch ==
  (ui.view = "dashboard" /\ ui.event = "done") =>
    /\ ui.isConnected <=> ui.fetched
    /\ ~ui.isConnected => ui.cameras = ui.before

\* the ids of the records of a sequence
IdsOf(records) == {records[i].id : i \in DOMAIN records}

\* C22: after deleteCapture(id) no stored record has that id, the records
\* of other ids are all still stored, unchanged and in their order, and
\* deleting an id that is not stored changes no record
C22_DeleteExactlyId ==
  [][ui'.event = "delete" =>
       LET before == StoredRecords(ui.storage)
           after == StoredRecords(ui'.storage)
           Other(r) == r.id # ui'.arg
       IN /\ ui'.arg \notin IdsOf(after)
          /\ after = SelectSeq(before, Other)
          /\ ui'.arg \notin IdsOf(before) => after = before]_vars

\* a delete took the middle record out of three and left the other two
C22_Witness ==
  /\ ui.view = "captures" /\ ui.event = "delete" /\ ~ui.ret.threw
  /\ Len(ui.before) = 3 /\ ui.before[2].id = ui.arg
  /\ StoredRecords(ui.storage) = <<ui.before[1], ui.before[3]>>

\* C23: a list leaves the stored records as they were, in content and in
\* order, whatever the file held and whichever server answers
C23_ListKeepsStore ==
  [][last'.op = "list" => StoredRecords(file') = StoredRecords(file)]_vars

\* screenshots.ts has answered a list in an order that is not the stored
\* one, and the file still holds the stored order: oldest first
C23_Witness ==
  /\ variant = "api" /\ last.op = "list" /\ last.status = 200
  /\ Len(StoredRecords(file)) >= 2
  /\ last.body # StoredRecords(file)
  /\ StoredRecords(file)[1].timestamp < StoredRecords(file)[2].timestamp

\* C24: a restart leaves an existing file as it is and the stored records
\* as they are, and a list that answered with records before the restart
\* answers with the same records after it
C24_RestartKeepsData ==
  [][last'.op = "restart" =>
       /\ ExistsSync(file) => file' = file
       /\ StoredRecords(file') = StoredRecords(file)
       /\ LET before == ListHandler(variant, file)
              after == ListHandler(variant, file')
          IN (before.status = 200 /\ before.isArray) =>
               (after.status = 200 /\ after.isArray /\ after.body = before.body)]_vars

\* a server that creates its file at start-up was restarted on a file of
\* two or more records
C24_Witness ==
  /\ variant \in {"legacy", "hardened"} /\ last.op = "restart"
  /\ Len(StoredRecords(file)) >= 2

\* C25: the payload the posting modal builds names one camera: its robotId
\* is the SegmentID of its segmentData
C25_PayloadOneCamera ==
  (ui.view = "capture" /\ Has(ui.payload, "robotId")) =>
    ui.payload.robotId = ui.payload.segmentData.SegmentID

C27_CaptureReenabled ==
  (ui.view = "capture" /\ ui.isCapturing) ~> (ui.view = "capture" /\ ~ui.isCapturing)

\* an attempt has ended without a record, and the control is enabled
C27_Witness ==
  /\ ui.view = "capture" /\ ui.event \in {"rejected", "threw"}
  /\ ~ui.isCapturing /\ ui.running = 0 /\ ~ButtonDisabled(ui)

\* C28: for every content of the storage key getAllCaptures returns an
\* array without throwing, getCaptureCount a non-negative integer, and
\* captureVisualization appends its record
C28_GetAllAlwaysArray ==
  ui.view = "captures" =>
    /\ ui.event = "getAll" => (~ui.ret.threw /\ ui.ret.isArray)
    /\ ui.event = "count" => (~ui.ret.threw /\ ui.ret.value >= 0)
    /\ ui.event = "capture" => ~ui.ret.threw

=============================================================================
